---- MODULE Spec2Model ----
(***************************************************************************)
(* A model of calculator.py: evaluate(expression) rewrites the text of an  *)
(* arithmetic expression, one regex match per call, until float() can      *)
(* parse what is left.                                                     *)
(*                                                                         *)
(* Text is a sequence of one-character strings.  A Python float is a       *)
(* record [neg, n, d]: sign, numerator and denominator of a dyadic         *)
(* rational in lowest terms (the sign is kept apart so that -0.0 and 0.0   *)
(* print differently, as they do in Python).  Every float of the model is  *)
(* exactly representable in binary64, so the arithmetic below is the       *)
(* arithmetic of the program without rounding; results outside that range  *)
(* are tagged "unrep" and inputs that produce one are left out of Inputs.  *)
(***************************************************************************)
EXTENDS Integers, Sequences, FiniteSets, TLC

(* ---------------------------- bounds ----------------------------------- *)

\* denominators of the model's floats are 2^0 .. 2^MaxFracBits
MaxFracBits == 4
\* largest numerator (and largest digit string read as an integer)
MaxNum == 40000
\* longest text of the exhaustive input family
MaxLen == 3
\* largest operand of the structured input families
MaxOperand == 3

(* ---------------------------- characters ------------------------------- *)

DigitChars == <<"0", "1", "2", "3", "4", "5", "6", "7", "8", "9">>

DigitSet == {"0", "1", "2", "3", "4", "5", "6", "7", "8", "9"}

IsDigit(c) == c \in DigitSet

DigitVal(c) == (CHOOSE i \in 1..10 : DigitChars[i] = c) - 1

\* str.isspace() over the characters of the model: float() strips these
IsSpace(c) == c \in {" ", "\t"}

(* ---------------------------- floats ----------------------------------- *)

RECURSIVE GCD(_, _)
GCD(a, b) == IF b = 0 THEN a ELSE GCD(b, a % b)

Norm(neg, n, d) ==
    IF n = 0 THEN [neg |-> neg, n |-> 0, d |-> 1]
    ELSE LET g == GCD(n, d) IN [neg |-> neg, n |-> n \div g, d |-> d \div g]

Zero == [neg |-> FALSE, n |-> 0, d |-> 1]
One == [neg |-> FALSE, n |-> 1, d |-> 1]
Two == [neg |-> FALSE, n |-> 2, d |-> 1]

Abs(i) == IF i < 0 THEN -i ELSE i

\* the numerator with its sign
Signed(x) == IF x.neg THEN -x.n ELSE x.n

IsZero(x) == x.n = 0

IsIntegral(x) == x.d = 1

Less(x, y) == Signed(x) * y.d < Signed(y) * x.d

RECURSIVE IsPowerOfTwo(_)
IsPowerOfTwo(d) == d = 1 \/ (d % 2 = 0 /\ IsPowerOfTwo(d \div 2))

RECURSIVE TwoTo(_)
TwoTo(k) == IF k = 0 THEN 1 ELSE 2 * TwoTo(k - 1)

\* the floats the model computes with exactly
InRange(x) == x.n <= MaxNum /\ IsPowerOfTwo(x.d) /\ x.d <= TwoTo(MaxFracBits)

\* results of an operation: a float, an int, a raised exception, or a value
\* outside the model's range
FloatResult(x) == IF InRange(x) THEN [kind |-> "float", val |-> x]
                  ELSE [kind |-> "unrep"]
IntResult(x) == IF InRange(x) THEN [kind |-> "int", val |-> x]
                ELSE [kind |-> "unrep"]
Raise(exc) == [kind |-> "raise", exc |-> exc]
Unrep == [kind |-> "unrep"]

\* operator.neg
Neg(x) == [x EXCEPT !.neg = ~x.neg]

\* the exact sum; a zero sum is -0.0 only when both operands are -0.0
Sum(x, y) ==
    LET num == Signed(x) * y.d + Signed(y) * x.d
    IN  IF num = 0 THEN [neg |-> x.neg /\ y.neg, n |-> 0, d |-> 1]
        ELSE Norm(num < 0, Abs(num), x.d * y.d)

\* operator.add
Add(x, y) == FloatResult(Sum(x, y))

\* operator.sub
Sub(x, y) == FloatResult(Sum(x, Neg(y)))

\* operator.mul
Mul(x, y) == FloatResult(Norm(x.neg # y.neg, x.n * y.n, x.d * y.d))

\* a bug: a zero divisor gives 0.0 instead of raising
TrueDivTotal(x, y) ==
    IF IsZero(y) THEN FloatResult(Zero)
    ELSE FloatResult(Norm(x.neg # y.neg, x.n * y.d, x.d * y.n))

\* operator.truediv
TrueDiv(x, y) ==
    IF IsZero(y) THEN Raise("ZeroDivisionError")
    ELSE FloatResult(Norm(x.neg # y.neg, x.n * y.d, x.d * y.n))

\* lambda x, y: (x + y) / 2.0
Average(x, y) ==
    LET s == Sum(x, y) IN FloatResult(Norm(s.neg, s.n, s.d * 2))

\* max(x, y): the second argument only when it is greater
Max(x, y) == FloatResult(IF Less(x, y) THEN y ELSE x)

\* min(x, y): the second argument only when it is smaller
Min(x, y) == FloatResult(IF Less(y, x) THEN y ELSE x)

\* math.fmod: the remainder has the sign of x
Fmod(x, y) ==
    IF IsZero(y) THEN Raise("ValueError")
    ELSE FloatResult(Norm(x.neg, (x.n * y.d) % (y.n * x.d), x.d * y.d))

\* acc * b^e for naturals, stopping once the product is above MaxNum
RECURSIVE PowFrom(_, _, _)
PowFrom(acc, b, e) ==
    IF e = 0 \/ acc > MaxNum THEN acc ELSE PowFrom(acc * b, b, e - 1)

NatPow(b, e) == IF b <= 1 /\ e > 0 THEN b ELSE PowFrom(1, b, e)

\* math.pow
Pow(x, y) ==
    IF IsZero(y) THEN FloatResult(One)
    ELSE IF x = One THEN FloatResult(One)
    ELSE IF IsIntegral(y) THEN
        LET odd == y.n % 2 = 1
            pn == NatPow(x.n, y.n)
            pd == NatPow(x.d, y.n)
        IN  IF ~y.neg THEN
                IF pn > MaxNum \/ pd > MaxNum THEN Unrep
                ELSE FloatResult([neg |-> x.neg /\ odd, n |-> pn, d |-> pd])
            ELSE IF IsZero(x) THEN Raise("ValueError")
            ELSE IF pn > MaxNum \/ pd > MaxNum THEN Unrep
            ELSE FloatResult([neg |-> x.neg /\ odd, n |-> pd, d |-> pn])
    ELSE IF IsZero(x) THEN
        IF y.neg THEN Raise("ValueError") ELSE FloatResult(Zero)
    ELSE IF x.neg THEN Raise("ValueError")
    ELSE Unrep

\* acc * i * (i+1) * ... * k, stopping once the product is above MaxNum
RECURSIVE FactorialFrom(_, _, _)
FactorialFrom(acc, i, k) ==
    IF i > k \/ acc > MaxNum THEN acc ELSE FactorialFrom(acc * i, i + 1, k)

NatFactorial(k) == FactorialFrom(1, 1, k)

\* math.factorial applied to a float.  Up to Python 3.9 an integral float is
\* accepted and the result is an int; from Python 3.10 on every float is
\* refused with TypeError.  acceptsFloat says which interpreter runs.
Factorial(x, acceptsFloat) ==
    IF ~acceptsFloat THEN Raise("TypeError")
    ELSE IF ~IsIntegral(x) THEN Raise("ValueError")
    ELSE IF x.neg /\ ~IsZero(x) THEN Raise("ValueError")
    ELSE IntResult([neg |-> FALSE, n |-> NatFactorial(x.n), d |-> 1])

(* ---------------------------- str and float ---------------------------- *)

RECURSIVE NatStr(_)
NatStr(k) ==
    IF k < 10 THEN <<DigitChars[k + 1]>>
    ELSE NatStr(k \div 10) \o <<DigitChars[(k % 10) + 1]>>

\* the digits of r/d after the decimal point (d is a power of two, r < d)
RECURSIVE FracStr(_, _)
FracStr(r, d) ==
    IF r = 0 THEN <<>>
    ELSE <<DigitChars[((r * 10) \div d) + 1]>> \o FracStr((r * 10) % d, d)

\* str(x) of a float: repr prints the digits of an in-range dyadic exactly
StrFloat(x) ==
    (IF x.neg THEN <<"-">> ELSE <<>>)
    \o NatStr(x.n \div x.d) \o <<".">>
    \o (IF x.n % x.d = 0 THEN <<"0">> ELSE FracStr(x.n % x.d, x.d))

\* str(x) of an int
StrInt(x) == (IF x.neg /\ x.n # 0 THEN <<"-">> ELSE <<>>) \o NatStr(x.n)

\* str(operation_result)
Str(r) == IF r.kind = "int" THEN StrInt(r.val) ELSE StrFloat(r.val)

\* text without its leading and trailing whitespace
Trim(s) ==
    LET keep == {i \in 1..Len(s) : ~IsSpace(s[i])}
    IN  IF keep = {} THEN <<>>
        ELSE SubSeq(s, CHOOSE i \in keep : \A j \in keep : i <= j,
                       CHOOSE i \in keep : \A j \in keep : i >= j)

\* the digits of s read as a natural, stopping once above MaxNum
RECURSIVE NatOf(_, _)
NatOf(acc, s) ==
    IF s = <<>> \/ acc > MaxNum THEN acc
    ELSE NatOf(IF IsDigit(Head(s)) THEN acc * 10 + DigitVal(Head(s)) ELSE acc,
               Tail(s))

RECURSIVE TenTo(_)
TenTo(k) == IF k = 0 THEN 1 ELSE 10 * TenTo(k - 1)

\* most decimals a literal of the model may have (10^k must stay small)
MaxDecimals == 6

\* float(text): optional whitespace around an optional sign and digits with
\* at most one point, at least one digit ("5." and ".5" are accepted)
Float(text) ==
    LET t == Trim(text)
        signed == t # <<>> /\ t[1] \in {"-", "+"}
        b == IF signed THEN Tail(t) ELSE t
        points == {i \in 1..Len(b) : b[i] = "."}
        wellformed == /\ \A i \in 1..Len(b) : IsDigit(b[i]) \/ b[i] = "."
                      /\ \E i \in 1..Len(b) : IsDigit(b[i])
                      /\ Cardinality(points) <= 1
        decimals == IF points = {} THEN 0
                    ELSE Len(b) - (CHOOSE i \in points : TRUE)
        digits == NatOf(0, b)
    IN  IF ~wellformed THEN Raise("ValueError")
        ELSE IF decimals > MaxDecimals \/ digits > MaxNum THEN Unrep
        ELSE FloatResult(Norm(signed /\ t[1] = "-", digits, TenTo(decimals)))

(* ---------------------------- regex matching --------------------------- *)

\* the first index from j on that holds no digit
RECURSIVE DigitsEnd(_, _)
DigitsEnd(s, j) ==
    IF j > Len(s) THEN j
    ELSE IF IsDigit(s[j]) THEN DigitsEnd(s, j + 1) ELSE j

\* ANY_NUMBER = -?\d+(?:\.\d+)? matched at index i: the index after the
\* (greedy, longest) match, 0 when there is none
ANY_NUMBER(s, i) ==
    IF i > Len(s) THEN 0
    ELSE LET j == IF s[i] = "-" THEN i + 1 ELSE i
             k == DigitsEnd(s, j)
         IN  IF k = j THEN 0
             ELSE IF k + 1 <= Len(s) /\ s[k] = "." /\ IsDigit(s[k + 1])
                  THEN DigitsEnd(s, k + 1)
                  ELSE k

NoMatch == [start |-> 0, end |-> 0, groups |-> <<>>]

Least(S) == CHOOSE i \in S : \A j \in S : i <= j

\* (ANY_NUMBER)sym(ANY_NUMBER): the leftmost match.  The symbol has to follow
\* the longest number at the start index; a shorter one is followed by a
\* digit or a point
SearchBinary(s, sym) ==
    LET starts == {i \in 1..Len(s) :
                     LET k == ANY_NUMBER(s, i)
                     IN  /\ k > 0 /\ k <= Len(s)
                         /\ s[k] = sym
                         /\ ANY_NUMBER(s, k + 1) > 0}
    IN  IF starts = {} THEN NoMatch
        ELSE LET i == Least(starts)
                 k == ANY_NUMBER(s, i)
                 e == ANY_NUMBER(s, k + 1)
             IN  [start |-> i, end |-> e,
                  groups |-> <<SubSeq(s, i, k - 1), SubSeq(s, k + 1, e - 1)>>]

\* ~(ANY_NUMBER)
SearchPrefix(s, sym) ==
    LET starts == {i \in 1..Len(s) : s[i] = sym /\ ANY_NUMBER(s, i + 1) > 0}
    IN  IF starts = {} THEN NoMatch
        ELSE LET i == Least(starts)
                 e == ANY_NUMBER(s, i + 1)
             IN  [start |-> i, end |-> e, groups |-> <<SubSeq(s, i + 1, e - 1)>>]

\* (ANY_NUMBER)!
SearchPostfix(s, sym) ==
    LET starts == {i \in 1..Len(s) :
                     LET k == ANY_NUMBER(s, i)
                     IN  k > 0 /\ k <= Len(s) /\ s[k] = sym}
    IN  IF starts = {} THEN NoMatch
        ELSE LET i == Least(starts)
                 k == ANY_NUMBER(s, i)
             IN  [start |-> i, end |-> k + 1, groups |-> <<SubSeq(s, i, k - 1)>>]

\* a bug: \((.*)\), from the first "(" to the last ")"
SearchGroupGreedy(s) ==
    LET opens == {i \in 1..Len(s) : s[i] = "("}
        closes == {j \in 1..Len(s) : s[j] = ")"}
    IN  IF opens = {} \/ closes = {} THEN NoMatch
        ELSE LET i == Least(opens)
                 j == CHOOSE m \in closes : \A n \in closes : n <= m
             IN  IF j < i THEN NoMatch
                 ELSE [start |-> i, end |-> j + 1,
                       groups |-> <<SubSeq(s, i + 1, j - 1)>>]

\* \(([^()]*)\): the leftmost "(" whose next parenthesis is a ")"
SearchGroup(s) ==
    LET closes(i) == {j \in (i + 1)..Len(s) :
                        /\ s[j] = ")"
                        /\ \A m \in (i + 1)..(j - 1) : s[m] \notin {"(", ")"}}
        starts == {i \in 1..Len(s) : s[i] = "(" /\ closes(i) # {}}
    IN  IF starts = {} THEN NoMatch
        ELSE LET i == Least(starts)
                 j == Least(closes(i))
             IN  [start |-> i, end |-> j + 1, groups |-> <<SubSeq(s, i + 1, j - 1)>>]

\* search_result.group()
Group(s, m) == SubSeq(s, m.start, m.end - 1)

(* ---------------------------- str.replace ------------------------------ *)

\* s.replace(old, new): every occurrence of old, left to right, not overlapping
RECURSIVE Replace(_, _, _)
Replace(s, old, new) ==
    IF Len(s) < Len(old) THEN s
    ELSE IF SubSeq(s, 1, Len(old)) = old
         THEN new \o Replace(SubSeq(s, Len(old) + 1, Len(s)), old, new)
         ELSE <<Head(s)>> \o Replace(Tail(s), old, new)

(* ---------------------------- the operator table ----------------------- *)

\* sys.maxsize, the precedence of "(" (only its order matters; the model
\* writes the largest 32-bit integer)
maxsize == 2147483647

Operator(symbol, precedence, operation, regex) ==
    [symbol |-> symbol, precedence |-> precedence,
     operation |-> operation, regex |-> regex]

\* the dict OPERATORS, in insertion order
OPERATORS == <<
    Operator("+", 1, "add", "binary"),
    Operator("-", 1, "sub", "binary"),
    Operator("*", 2, "mul", "binary"),
    Operator("/", 2, "truediv", "binary"),
    Operator("^", 3, "pow", "binary"),
    Operator("%", 4, "fmod", "binary"),
    Operator("@", 5, "average", "binary"),
    Operator("$", 5, "max", "binary"),
    Operator("&", 5, "min", "binary"),
    Operator("~", 6, "neg", "prefix"),
    Operator("!", 7, "factorial", "postfix"),
    Operator("(", maxsize, "evaluate", "group") >>

\* a bug: the operators in ascending order of precedence (reverse=True lost)
InsertAscending(acc, x) ==
    LET k == Cardinality({i \in 1..Len(acc) : acc[i].precedence <= x.precedence})
    IN  SubSeq(acc, 1, k) \o <<x>> \o SubSeq(acc, k + 1, Len(acc))

\* one step of sorted(..., key=precedence, reverse=True): x goes after every
\* operator of the same or a higher precedence (the sort is stable)
Insert(acc, x) ==
    LET k == Cardinality({i \in 1..Len(acc) : acc[i].precedence >= x.precedence})
    IN  SubSeq(acc, 1, k) \o <<x>> \o SubSeq(acc, k + 1, Len(acc))

RECURSIVE SortInto(_, _)
SortInto(acc, rest) ==
    IF rest = <<>> THEN acc ELSE SortInto(Insert(acc, Head(rest)), Tail(rest))

\* sorted(OPERATORS.values(), key=attrgetter("precedence"), reverse=True)
operators_by_precedence == SortInto(<<>>, OPERATORS)

\* re.search(operator_regex, expression)
Search(op, s) ==
    CASE op.regex = "binary" -> SearchBinary(s, op.symbol)
      [] op.regex = "prefix" -> SearchPrefix(s, op.symbol)
      [] op.regex = "postfix" -> SearchPostfix(s, op.symbol)
      [] op.regex = "group" -> SearchGroup(s)

\* the for loop: the index of the first operator, in scanning order, whose
\* regex matches; 0 when the loop runs to its end
RECURSIVE FirstMatchingFrom(_, _)
FirstMatchingFrom(i, s) ==
    IF i > Len(operators_by_precedence) THEN 0
    ELSE IF Search(operators_by_precedence[i], s) # NoMatch THEN i
    ELSE FirstMatchingFrom(i + 1, s)

FirstMatching(s) == FirstMatchingFrom(1, s)

\* operator_info.operation(x, y) for the binary operators
Binary(operation, x, y) ==
    CASE operation = "add" -> Add(x, y)
      [] operation = "sub" -> Sub(x, y)
      [] operation = "mul" -> Mul(x, y)
      [] operation = "truediv" -> TrueDiv(x, y)
      [] operation = "pow" -> Pow(x, y)
      [] operation = "fmod" -> Fmod(x, y)
      [] operation = "average" -> Average(x, y)
      [] operation = "max" -> Max(x, y)
      [] operation = "min" -> Min(x, y)

\* operands = [float(op) for op in operands]; operation(*operands)
Apply(op, groups, acceptsFloat) ==
    LET x == Float(groups[1])
    IN  IF x.kind = "unrep" THEN Unrep
        ELSE IF op.regex = "prefix" THEN FloatResult(Neg(x.val))
        ELSE IF op.regex = "postfix" THEN Factorial(x.val, acceptsFloat)
        ELSE LET y == Float(groups[2])
             IN  IF y.kind = "unrep" THEN Unrep
                 ELSE Binary(op.operation, x.val, y.val)

\* a bug: nothing is removed
StripKeepsSpaces(expression) == expression

\* expression.replace(" ", "")
Strip(expression) == Replace(expression, <<" ">>, <<>>)

(* ---------------------------- evaluate, as a function ------------------ *)

\* evaluate(expression): [kind |-> "float", val], [kind |-> "raise", exc],
\* or [kind |-> "unrep"] when a value leaves the model's range
RECURSIVE evaluate(_, _)
evaluate(expression, acceptsFloat) ==
    LET e == Strip(expression)
        i == FirstMatching(e)
    IN  IF i = 0 THEN Float(e)
        ELSE LET operator_info == operators_by_precedence[i]
                 search_result == Search(operator_info, e)
                 operation_result ==
                     IF operator_info.regex = "group"
                     THEN evaluate(search_result.groups[1], acceptsFloat)
                     ELSE Apply(operator_info, search_result.groups, acceptsFloat)
             IN  IF operation_result.kind \in {"raise", "unrep"}
                 THEN operation_result
                 ELSE evaluate(Replace(e, Group(e, search_result),
                                       Str(operation_result)), acceptsFloat)

(* ---------------------------- inputs ----------------------------------- *)

\* the literals 0 .. MaxOperand
Operands == {NatStr(k) : k \in 0..MaxOperand}

BinarySymbols == {"+", "-", "*", "/", "^", "%", "@", "$", "&"}

\* every text of at most MaxLen characters over these characters
ShortAlphabet == {"0", "5", ".", "+", "-", "/", "~", "!", "(", ")", " ", "\t"}
ShortInputs == UNION {[1..n -> ShortAlphabet] : n \in 0..MaxLen}

\* a op b op c
ChainInputs ==
    {a \o <<o1>> \o b \o <<o2>> \o c :
        a \in Operands, b \in Operands, c \in Operands,
        o1 \in {"+", "-", "*", "/", "^"}, o2 \in {"+", "-", "*", "/", "^"}}

\* x! and a-b!
FactorialInputs ==
    {x \o <<"!">> : x \in Operands \cup {<<"-", "0">>, <<"-", "1">>, <<"-", "2">>,
                                         <<"2", ".", "5">>, <<"1", ".", "5">>,
                                         <<"3", ".", "0">>, <<"4">>, <<"5">>}}
    \cup {a \o <<"-">> \o b \o <<"!">> : a \in Operands, b \in Operands}

\* the parenthesis-free expressions put into groups: values that are
\* positive, zero and negative
GroupBodies == {NatStr(k) : k \in 0..2}
               \cup {NatStr(a) \o <<"-">> \o NatStr(b) : a \in 0..1, b \in 1..2}

\* (E1)op(E2) and ((E1)op(E2))
GroupInputs ==
    {<<"(">> \o e1 \o <<")", o, "(">> \o e2 \o <<")">> :
        e1 \in GroupBodies, e2 \in GroupBodies, o \in BinarySymbols}
    \cup {<<"(", "(">> \o e1 \o <<")", o, "(">> \o e2 \o <<")", ")">> :
        e1 \in GroupBodies, e2 \in GroupBodies, o \in BinarySymbols}

\* a group inside a group that is an operand of an operator outside it
NestedInputs ==
    {<<"1", o, "(">> \o b \o <<"/", "(">> \o c \o <<"-">> \o d \o <<")", ")">> :
        b \in Operands, c \in Operands, d \in Operands, o \in {"+", "*"}}

\* a op b with nothing, a space or a tab at each of the four gaps
Blanks == {<<>>, <<" ">>, <<"\t">>}
BlankInputs ==
    {w1 \o a \o w2 \o <<o>> \o w3 \o b \o w4 :
        w1 \in Blanks, w2 \in Blanks, w3 \in Blanks, w4 \in Blanks,
        a \in {<<"1">>, <<"1", "2">>}, b \in {<<"2">>}, o \in {"+", "/"}}

\* a+b-ca+b: the text a+b is matched first and occurs again inside ca+b
RepeatInputs ==
    {a \o <<"+">> \o b \o <<"-">> \o c \o a \o <<"+">> \o b :
        a \in Operands, b \in Operands, c \in Operands \ {<<"0">>}}

\* texts that are no expression: a literal next to a group or to "~", an
\* operator without operand, parentheses that do not pair up
AdjacentInputs ==
    {a \o <<"(">> \o b \o <<")">> : a \in Operands, b \in Operands}
    \cup {<<"(">> \o a \o <<")">> \o b : a \in Operands, b \in Operands}
    \cup {a \o <<"~">> \o b : a \in Operands, b \in Operands}
TrailingInputs ==
    {a \o <<o>> : a \in Operands, o \in BinarySymbols}
    \cup {a \o <<o, o>> \o b : a \in Operands, b \in Operands,
                               o \in BinarySymbols \ {"-"}}
UnbalancedInputs ==
    {<<"(">> \o a \o <<"+">> \o b : a \in Operands, b \in Operands}
    \cup {a \o <<"+">> \o b \o <<")">> : a \in Operands, b \in Operands}
    \cup {<<"(", ")">>, <<"(", ")", "+", "1">>}
MalformedInputs == AdjacentInputs \cup TrailingInputs \cup UnbalancedInputs

Candidates ==
    ShortInputs \cup ChainInputs \cup FactorialInputs \cup GroupInputs
    \cup NestedInputs \cup BlankInputs \cup RepeatInputs \cup MalformedInputs

\* the interpreters the program runs on: math.factorial accepts integral
\* floats (Python up to 3.9) or refuses every float (Python 3.10 and later).
\* The two differ only where "!" is applied
Interpreters(e) ==
    IF \E i \in 1..Len(e) : e[i] = "!" THEN BOOLEAN ELSE {TRUE}

\* the runs the model follows: those whose every value is a float of the model
Runs ==
    {r \in {<<e, f>> : e \in Candidates, f \in BOOLEAN} :
        r[2] \in Interpreters(r[1]) /\ evaluate(r[1], r[2]).kind # "unrep"}

(* ---------------------------- evaluate, step by step ------------------- *)

VARIABLES
    input,          \* the argument of the outermost call of evaluate
    acceptsFloat,   \* whether math.factorial accepts integral floats
    expression,     \* the local expression of the running call
    operator_info,  \* the loop variable of the running call
    search_result,  \* the local search_result of the running call
    stack,          \* the calls of evaluate waiting for a group's value
    pc,             \* where the running call is: "scan" (line 59), "apply"
                    \* (line 72), "float" (line 84), or "done"
    outcome,        \* what the outermost call returned or raised
    passes          \* the matches applied so far (line 72 reached)

vars == <<input, acceptsFloat, expression, operator_info, search_result,
          stack, pc, outcome, passes>>

None == [kind |-> "none"]

Init ==
    /\ \E r \in Runs : input = r[1] /\ acceptsFloat = r[2]
    /\ expression = input
    /\ operator_info = None
    /\ search_result = None
    /\ stack = <<>>
    /\ pc = "scan"
    /\ outcome = None
    /\ passes = 0

\* lines 59-70: strip the text, then try the operators in scanning order
\* until a regex matches; the loop ends without a match at the last operator
SearchOperators ==
    /\ pc = "scan"
    /\ \E e \in {Strip(expression)} :
        /\ expression' = e
        /\ \E found \in {FirstMatching(e)} :
            IF found = 0
            THEN /\ operator_info' =
                        operators_by_precedence[Len(operators_by_precedence)]
                 /\ search_result' = NoMatch
                 /\ pc' = "float"
            ELSE /\ operator_info' = operators_by_precedence[found]
                 /\ search_result' = Search(operators_by_precedence[found], e)
                 /\ pc' = "apply"
    /\ UNCHANGED <<input, acceptsFloat, stack, outcome, passes>>

\* lines 72-82 for an operator other than "(": apply it, rewrite the text
\* and call evaluate on the new text
Reduce ==
    /\ pc = "apply" /\ operator_info.regex # "group"
    /\ \E operation_result \in
           {Apply(operator_info, search_result.groups, acceptsFloat)} :
        /\ operation_result.kind \in {"float", "int"}
        /\ expression' = Replace(expression, Group(expression, search_result),
                                 Str(operation_result))
    /\ pc' = "scan"
    /\ operator_info' = None
    /\ search_result' = None
    /\ passes' = passes + 1
    /\ UNCHANGED <<input, acceptsFloat, stack, outcome>>

\* line 77 raises: the exception leaves every pending call
RaiseOperation ==
    /\ pc = "apply" /\ operator_info.regex # "group"
    /\ \E operation_result \in
           {Apply(operator_info, search_result.groups, acceptsFloat)} :
        /\ operation_result.kind = "raise"
        /\ outcome' = operation_result
    /\ pc' = "done"
    /\ stack' = <<>>
    /\ passes' = passes + 1
    /\ UNCHANGED <<input, acceptsFloat, expression, operator_info, search_result>>

\* line 77 for "(": the lambda calls evaluate on the text inside the group,
\* while this call waits with its locals
EnterGroup ==
    /\ pc = "apply" /\ operator_info.regex = "group"
    /\ stack' = <<[expression |-> expression,
                   operator_info |-> operator_info,
                   search_result |-> search_result]>> \o stack
    /\ expression' = search_result.groups[1]
    /\ pc' = "scan"
    /\ operator_info' = None
    /\ search_result' = None
    /\ passes' = passes + 1
    /\ UNCHANGED <<input, acceptsFloat, outcome>>

\* line 84 in a call made for a group, then lines 79-82 of the waiting call
LeaveGroup ==
    /\ pc = "float" /\ stack # <<>>
    /\ \E value \in {Float(expression)} :
        /\ value.kind = "float"
        /\ expression' = Replace(Head(stack).expression,
                                 Group(Head(stack).expression,
                                       Head(stack).search_result),
                                 Str(value))
    /\ stack' = Tail(stack)
    /\ pc' = "scan"
    /\ operator_info' = None
    /\ search_result' = None
    /\ UNCHANGED <<input, acceptsFloat, outcome, passes>>

\* line 84 in the outermost call: the value is returned
Accept ==
    /\ pc = "float" /\ stack = <<>>
    /\ \E value \in {Float(expression)} :
        /\ value.kind = "float"
        /\ outcome' = value
    /\ pc' = "done"
    /\ UNCHANGED <<input, acceptsFloat, expression, operator_info,
                   search_result, stack, passes>>

\* line 84 raises ValueError: the text left is no number
Reject ==
    /\ pc = "float"
    /\ \E value \in {Float(expression)} :
        /\ value.kind = "raise"
        /\ outcome' = value
    /\ pc' = "done"
    /\ stack' = <<>>
    /\ UNCHANGED <<input, acceptsFloat, expression, operator_info,
                   search_result, passes>>

Next ==
    \/ SearchOperators
    \/ Reduce
    \/ RaiseOperation
    \/ EnterGroup
    \/ LeaveGroup
    \/ Accept
    \/ Reject

Spec == Init /\ [][Next]_vars

(* ---------------------------- the claims ------------------------------- *)

\* float(text) of a literal
Val(text) == Float(text).val

\* the operation of a binary symbol
OperationOf(symbol) ==
    OPERATORS[CHOOSE i \in 1..Len(OPERATORS) : OPERATORS[i].symbol = symbol].operation

Returned(x) == pc = "done" /\ outcome = [kind |-> "float", val |-> x]

C3_LeftAssociative ==
    /\ (pc = "apply") =>
        \A i \in 1..Len(OPERATORS) :
            (/\ OPERATORS[i].precedence = operator_info.precedence
             /\ Search(OPERATORS[i], expression) # NoMatch)
            => search_result.start <= Search(OPERATORS[i], expression).start
    /\ (pc = "done") =>
        \A a \in Operands \ {<<"0">>}, b \in Operands \ {<<"0">>},
           c \in Operands \ {<<"0">>} :
            /\ (input = a \o <<"/">> \o b \o <<"*">> \o c
                    /\ TrueDiv(Val(a), Val(b)).kind = "float")
                => outcome = Mul(TrueDiv(Val(a), Val(b)).val, Val(c))
            /\ (input = a \o <<"-">> \o b \o <<"+">> \o c)
                => outcome = Add(Sub(Val(a), Val(b)).val, Val(c))

\* C4: a "-" that follows a digit is the subtraction operator and never the
\* sign of the left operand of a match: for all non-negative literals a, b, c,
\* in "a-b^c" and "a-b!" the power and the factorial are applied to b.
C4_MinusAfterDigitIsBinary ==
    /\ (pc = "apply" /\ search_result.start > 1
            /\ expression[search_result.start] = "-")
        => ~IsDigit(expression[search_result.start - 1])
    /\ (pc = "done" /\ acceptsFloat) =>
        \A a \in Operands, b \in Operands :
            /\ \A c \in Operands :
                (input = a \o <<"-">> \o b \o <<"^">> \o c)
                    => outcome = Sub(Val(a), Pow(Val(b), Val(c)).val)
            /\ (input = a \o <<"-">> \o b \o <<"!">>)
                => outcome = Sub(Val(a), Factorial(Val(b), TRUE).val)

\* the whole text is one literal of the grammar -?\d+(\.\d+)?
IsLiteral(text) == ANY_NUMBER(text, 1) = Len(text) + 1

\* C5: evaluate returns a number only for well-formed expressions: a trailing
\* or doubled operator, unbalanced or empty parentheses, a literal next to a
\* group or to a unary operator, or a remaining text that is no literal of
\* the grammar, ends in an error.
C5_MalformedIsRejected ==
    pc = "done" =>
        /\ (input \in MalformedInputs) => (outcome.kind = "raise")
        /\ (outcome.kind = "float") => IsLiteral(expression)

\* the right operand of the match is zero
DividesByZero ==
    /\ pc = "apply" /\ operator_info.symbol = "/"
    /\ IsZero(Val(search_result.groups[2]))

\* C6: whenever "/" is applied with a right operand equal to zero, at any
\* depth of the recursion, evaluate ends in ZeroDivisionError: it returns no
\* number and no further pass follows.
C6_DivisionByZeroRaises ==
    [][/\ DividesByZero =>
            (/\ pc' = "done" /\ stack' = <<>>
             /\ outcome' = Raise("ZeroDivisionError")
             /\ passes' = passes + 1)
       /\ (pc = "done") => UNCHANGED vars]_vars

\* C6, its case: in 1+(2/(1-1)) the zero comes from a group and the division
\* is inside a group; evaluate has raised in its fourth pass
C6_Witness ==
    /\ input = <<"1", "+", "(", "2", "/", "(", "1", "-", "1", ")", ")">>
    /\ pc = "done" /\ outcome = Raise("ZeroDivisionError")
    /\ passes = 4

\* the literals put before "!"
FactorialOperands ==
    {x \in Candidates : x \o <<"!">> \in FactorialInputs /\ IsLiteral(x)}

\* C7: for a literal x, evaluate("x!") returns x! when x is a non-negative
\* whole number, and ends in an error when x is negative or has a fraction.
C7_Factorial ==
    pc = "done" =>
        \A x \in FactorialOperands :
            input = x \o <<"!">> =>
                IF IsIntegral(Val(x)) /\ (~Val(x).neg \/ IsZero(Val(x)))
                THEN Returned([neg |-> FALSE, n |-> NatFactorial(Val(x).n),
                               d |-> 1])
                ELSE outcome.kind = "raise"

WithoutSpaces(text) == SelectSeq(text, LAMBDA c : c # " ")

WithoutWhitespace(text) == SelectSeq(text, LAMBDA c : ~IsSpace(c))

\* C8 as stated: every whitespace character (space, tab) is removed before
\* any matching, so whitespace anywhere in the text never changes the outcome.
C8_WhitespaceIgnored ==
    (pc = "done"
        /\ evaluate(WithoutWhitespace(input), acceptsFloat).kind # "unrep")
    => outcome = evaluate(WithoutWhitespace(input), acceptsFloat)

\* C8 as amended: every space is removed before any matching, so spaces
\* anywhere in the text never change the outcome (a tab is not removed).
C8_SpacesIgnored ==
    /\ (pc # "scan") => \A i \in 1..Len(expression) : expression[i] # " "
    /\ (pc = "done") => outcome = evaluate(WithoutSpaces(input), acceptsFloat)

\* C8, its case: "1 + 2" has returned 3
C8_Witness ==
    /\ input = <<"1", " ", "+", " ", "2">>
    /\ Returned([neg |-> FALSE, n |-> 3, d |-> 1])

\* what lies before index start and from index end on is the same in the
\* old and in the new text
OutsideKept(old, start, end, new) ==
    /\ Len(new) >= (start - 1) + (Len(old) - end + 1)
    /\ SubSeq(new, 1, start - 1) = SubSeq(old, 1, start - 1)
    /\ SubSeq(new, Len(new) - (Len(old) - end), Len(new))
           = SubSeq(old, end, Len(old))

\* C9: a pass rewrites one span, the leftmost occurrence of the matched text
\* that the search found, and leaves every character outside it unchanged,
\* also when the matched text occurs again elsewhere.
C9_OnlyTheMatchedSpan ==
    [][/\ (pc = "apply" /\ pc' = "scan" /\ stack' = stack)
            => OutsideKept(expression, search_result.start, search_result.end,
                           expression')
       /\ (pc = "float" /\ pc' = "scan")
            => OutsideKept(Head(stack).expression,
                           Head(stack).search_result.start,
                           Head(stack).search_result.end, expression')]_vars

\* the operator characters of a text, a pair of parentheses counting once
OperatorSymbols(text) ==
    LET count(S) == Cardinality({i \in 1..Len(text) : text[i] \in S})
        opens == count({"("})
        closes == count({")"})
    IN  count(BinarySymbols \cup {"~", "!"})
        + (IF opens < closes THEN opens ELSE closes)

\* C10: every call of evaluate ends, returning a number or raising, after at
\* most as many passes as there are operator symbols in the input.
C10_PassesBounded == passes <= OperatorSymbols(input)

====
